---- MODULE Spec2Model ----
(***************************************************************************)
(* Model of inkcut/device/filters/perforation.py: PerforationFilter.       *)
(*                                                                         *)
(* A polyline is modelled by the cumulative arc length of its points: the  *)
(* sequence <<0, 3, 7>> is a three point path of total length 7.  That is  *)
(* what the filter uses of a polygon: its number of points, the length of  *)
(* the QPainterPath built from it, and points sampled by arc length.  A    *)
(* point is therefore its arc-length position on the source path, and a    *)
(* chord <<s, e>> is the two point polygon extract_path_segment builds.    *)
(* Lengths are integers (the source uses floats; rounding is not           *)
(* modelled).  The model covers the build in which the Qt imports of       *)
(* lines 20-27 succeed.                                                    *)
(***************************************************************************)
EXTENDS Integers, Sequences, FiniteSets

\* ---------------------------------------------------------------- bounds
MaxLen == 12
MaxCut == 5
MaxBridge == 4
MaxNeg == 2
MaxPolys == 2
MaxBatchLen == 3
MaxFaults == 1
MaxGrowth == 3

\* PerforationConfig defaults, used for the documented scenarios
DefaultCutLength == 5
DefaultBridgeLength == 2

VARIABLES
    polypath,             \* argument of apply_to_polypath
    cut_length,           \* config.cut_length
    bridge_length,        \* config.bridge_length
    start_with_cut,       \* config.start_with_cut
    pc,                   \* position in apply_to_polypath / apply_perforation
    idx,                  \* index of `poly` in the for loop of apply_to_polypath
    result,               \* local `result` of apply_to_polypath
    output,               \* value returned by apply_to_polypath
    total_length,         \* locals of apply_perforation ...
    remaining_length,
    final_is_cutting,
    effective_length,
    current_distance,
    is_cutting,
    segments,
    perforated_segments,  \* value returned by apply_perforation
    returned,             \* history: what each polyline contributed
    failed,               \* history: a Qt call raised while processing `poly`
    nfaults               \* history: number of Qt calls that raised

vars == <<polypath, cut_length, bridge_length, start_with_cut, pc, idx, result,
          output, total_length, remaining_length, final_is_cutting,
          effective_length, current_distance, is_cutting, segments,
          perforated_segments, returned, failed, nfaults>>

config == <<polypath, cut_length, bridge_length, start_with_cut>>
locals == <<total_length, remaining_length, final_is_cutting, effective_length,
            current_distance, is_cutting, segments>>

\* ------------------------------------------------------------ pure helpers
Min(a, b) == IF a <= b THEN a ELSE b

\* None, as returned by extract_path_segment (falsy, like an empty polygon)
None == << >>

\* QPainterPath.length() of the path built by moveTo/lineTo over poly
PathLength(poly) == poly[Len(poly)]

\* QPainterPath.pointAtPercent: the point at fraction pct = <<num, den>> of
\* the length, identified by its arc-length position
PointAtPercent(path, pct) == (pct[1] * PathLength(path)) \div pct[2]

\* start_distance / total_length
StartPercent(start_distance, total) == <<start_distance, total>>

\* min(end_distance / total_length, 1.0)
EndPercent(end_distance, total) ==
    IF end_distance > total THEN <<1, 1>> ELSE <<end_distance, total>>

\* extract_path_segment(path, start_distance, end_distance); raises says that
\* a Qt call inside the try block raised
extract_path_segment(path, start_distance, end_distance, raises) ==
    IF start_distance >= end_distance THEN None
    ELSE IF raises THEN None
    ELSE IF start_distance >= PathLength(path) THEN None
    ELSE IF PathLength(path) = 0 THEN None
    ELSE <<PointAtPercent(path, StartPercent(start_distance, PathLength(path))),
           PointAtPercent(path, EndPercent(end_distance, PathLength(path)))>>

\* mutant: the short cut is not shortened
ShortCutWhole(total, bridge) == total

\* cut_end = total_length - bridge_length
ShortCutEnd(total, bridge) == total - bridge

\* the branch total_length <= cut_length of apply_perforation
ShortPathResult(path, total, bridge, swc, raises) ==
    IF swc
    THEN IF total > bridge /\ ShortCutEnd(total, bridge) > 0
         THEN LET shortened_poly ==
                      extract_path_segment(path, 0, ShortCutEnd(total, bridge), raises)
              IN  IF shortened_poly # None THEN <<shortened_poly>> ELSE << >>
         ELSE << >>
    ELSE << >>

\* mutant: the whole path is cut instead of one cut run
MidPathWhole(path, cut, raises) ==
    LET cut_segment == extract_path_segment(path, 0, PathLength(path), raises)
    IN  IF cut_segment # None THEN <<cut_segment>> ELSE << >>

\* the branch cut_length < total_length <= segment_length
MidPathResult(path, cut, raises) ==
    LET cut_segment == extract_path_segment(path, 0, cut, raises)
    IN  IF cut_segment # None THEN <<cut_segment>> ELSE << >>

\* whether the short-path branches reach the try block of extract_path_segment
ShortPathExtracts(total, cut, bridge, swc) ==
    IF total <= cut
    THEN swc /\ total > bridge /\ ShortCutEnd(total, bridge) > 0
    ELSE 0 < cut

\* mutant: no space is reserved for the final bridge
NoReserve(total, bridge, final_cut) == total

\* if final_is_cutting and total_length > bridge_length: reserve a bridge
EffectiveLength(total, bridge, final_cut) ==
    IF final_cut /\ total > bridge THEN total - bridge ELSE total

\* mutant: the cut is not clamped to the effective length
SegmentEndNoClamp(cur, cut, eff) == cur + cut

\* mutant: the cut always runs to the effective length
SegmentEndToEnd(cur, cut, eff) == eff

\* segment_end = min(current_distance + cut_length, effective_length)
SegmentEnd(cur, cut, eff) == Min(cur + cut, eff)

\* current_distance = min(current_distance + bridge_length, effective_length)
BridgeEnd(cur, bridge, eff) == Min(cur + bridge, eff)

\* mutant: the comparison is reversed
ShouldEmitFlipped(segment_start, segment_end) == segment_end < segment_start

\* if segment_end > segment_start
ShouldEmit(segment_start, segment_end) == segment_end > segment_start

\* mutant: the new segment is put in front
PrependSegment(segs, cut_segment) == <<cut_segment>> \o segs

\* segments.append(cut_segment)
AppendSegment(segs, cut_segment) == Append(segs, cut_segment)

\* mutant: the segments are put in front of the result
ExtendFront(res, segs) == segs \o res

\* result.extend(perforated_segments)
ExtendResult(res, segs) == res \o segs

\* ------------------------------------------------------------------ inputs
CutLengths == (0 - MaxNeg)..MaxCut
BridgeLengths == (0 - MaxNeg)..MaxBridge

Polylines ==
    {<< >>, <<0>>}
        \cup {<<0, l>> : l \in 0..MaxLen}
        \cup {<<0, 1, l>> : l \in 1..MaxLen}

RECURSIVE SeqsUpTo(_, _)
SeqsUpTo(S, n) ==
    IF n = 0 THEN {<< >>}
    ELSE LET shorter == SeqsUpTo(S, n - 1)
         IN  shorter \cup {Append(s, x) : s \in shorter, x \in S}

\* the polylines of the batches of several polylines
BatchPolylines == {<<0>>} \cup {<<0, l>> : l \in 0..MaxBatchLen}

\* every single polyline, and every batch of up to MaxPolys short polylines
Batches == {<<p>> : p \in Polylines} \cup SeqsUpTo(BatchPolylines, MaxPolys)

\* the straight lines of length 100 and 3 of the documented scenarios
ScenarioBatches == { << <<0, 100>> >>, << <<0, 3>> >> }

Start(batch, cut, bridge, swc) ==
    /\ polypath = batch
    /\ cut_length = cut
    /\ bridge_length = bridge
    /\ start_with_cut = swc
    /\ pc = "start"
    /\ idx = 0
    /\ result = << >>
    /\ output = << >>
    /\ total_length = 0
    /\ remaining_length = 0
    /\ final_is_cutting = FALSE
    /\ effective_length = 0
    /\ current_distance = 0
    /\ is_cutting = FALSE
    /\ segments = << >>
    /\ perforated_segments = << >>
    /\ returned = << >>
    /\ failed = FALSE
    /\ nfaults = 0

Init ==
    \/ \E batch \in Batches, cut \in CutLengths, bridge \in BridgeLengths,
          swc \in BOOLEAN : Start(batch, cut, bridge, swc)
    \/ \E batch \in ScenarioBatches, swc \in BOOLEAN :
          Start(batch, DefaultCutLength, DefaultBridgeLength, swc)

\* ----------------------------------------------------------------- actions
poly == polypath[idx]

ResetLocals ==
    /\ total_length' = 0
    /\ remaining_length' = 0
    /\ final_is_cutting' = FALSE
    /\ effective_length' = 0
    /\ current_distance' = 0
    /\ is_cutting' = FALSE
    /\ segments' = << >>

\* a Qt call may raise, at most MaxFaults times in one run
MayRaise(raises) == raises => nfaults < MaxFaults
Raised(raises) ==
    /\ failed' = (failed \/ raises)
    /\ nfaults' = IF raises THEN nfaults + 1 ELSE nfaults

\* apply_to_polypath, lines 78-89: the parameter guards
apply_to_polypath ==
    /\ pc = "start"
    /\ IF (cut_length <= 0 /\ bridge_length <= 0) \/ bridge_length <= 0
       THEN /\ output' = polypath
            /\ pc' = "done"
            /\ UNCHANGED <<idx, result>>
       ELSE /\ result' = << >>
            /\ idx' = 1
            /\ pc' = "loop"
            /\ UNCHANGED output
    /\ UNCHANGED <<config, locals, perforated_segments, returned, failed, nfaults>>

\* lines 92-96: a polygon with fewer than 2 points is appended as it is
SkipPoly ==
    /\ pc = "loop"
    /\ idx <= Len(polypath)
    /\ Len(poly) < 2
    /\ result' = Append(result, poly)
    /\ returned' = Append(returned, <<poly>>)
    /\ idx' = idx + 1
    /\ UNCHANGED <<config, pc, output, locals, perforated_segments, failed, nfaults>>

\* line 99: call apply_perforation(poly, cut_length, bridge_length)
CallPerforation ==
    /\ pc = "loop"
    /\ idx <= Len(polypath)
    /\ Len(poly) >= 2
    /\ pc' = "perforate"
    /\ failed' = FALSE
    /\ UNCHANGED <<config, idx, result, output, locals, perforated_segments,
                   returned, nfaults>>

\* line 105: the loop is over, return result
ReturnResult ==
    /\ pc = "loop"
    /\ idx > Len(polypath)
    /\ output' = result
    /\ pc' = "done"
    /\ UNCHANGED <<config, idx, result, locals, perforated_segments, returned,
                   failed, nfaults>>

\* lines 129-137 and 214-216: building or measuring the path raises
MeasureFails ==
    /\ pc = "perforate"
    /\ MayRaise(TRUE)
    /\ Raised(TRUE)
    /\ perforated_segments' = <<poly>>
    /\ pc' = "extend"
    /\ UNCHANGED <<config, idx, result, output, locals, returned>>

\* lines 137-162: total_length <= segment_length.  A Qt call can raise inside
\* extract_path_segment only when the branch calls it with start < end.
ShortPath ==
    /\ pc = "perforate"
    /\ PathLength(poly) <= cut_length + bridge_length
    /\ \E raises \in BOOLEAN :
          /\ MayRaise(raises)
          /\ raises => ShortPathExtracts(PathLength(poly), cut_length, bridge_length,
                                         start_with_cut)
          /\ Raised(raises)
          /\ perforated_segments' =
                IF PathLength(poly) <= cut_length
                THEN ShortPathResult(poly, PathLength(poly), bridge_length,
                                     start_with_cut, raises)
                ELSE MidPathResult(poly, cut_length, raises)
    /\ total_length' = PathLength(poly)
    /\ pc' = "extend"
    /\ UNCHANGED <<config, idx, result, output, remaining_length, final_is_cutting,
                   effective_length, current_distance, is_cutting, segments,
                   returned>>

\* lines 164-179: the general case, up to the first test of the condition of
\* the simulation loop (false on entry for a path of length 0)
GeneralCase ==
    /\ pc = "perforate"
    /\ PathLength(poly) > cut_length + bridge_length
    /\ total_length' = PathLength(poly)
    /\ segments' = << >>
    /\ current_distance' = 0
    /\ is_cutting' = start_with_cut
    /\ effective_length' = PathLength(poly)
    /\ remaining_length' = PathLength(poly)
    /\ final_is_cutting' = start_with_cut
    /\ pc' = IF PathLength(poly) > 0 THEN "simulate" ELSE "reserve"
    /\ UNCHANGED <<config, idx, result, output, perforated_segments, returned,
                   failed, nfaults>>

\* lines 179-188: one iteration of the simulation loop, to its break or to
\* the next test of its condition (true, since remaining_length > 0)
SimulateStep ==
    /\ pc = "simulate"
    /\ remaining_length > 0
    /\ remaining_length <= total_length + MaxGrowth
    /\ LET phase == IF final_is_cutting THEN cut_length ELSE bridge_length
           left == remaining_length - Min(phase, remaining_length)
       IN  /\ remaining_length' = left
           /\ IF left <= 0
              THEN /\ pc' = "reserve"
                   /\ UNCHANGED final_is_cutting
              ELSE /\ final_is_cutting' = ~final_is_cutting
                   /\ UNCHANGED pc
    /\ UNCHANGED <<config, idx, result, output, total_length, effective_length,
                   current_distance, is_cutting, segments, perforated_segments,
                   returned, failed, nfaults>>

\* lines 190-192: reserve space for a final bridge
ReserveBridge ==
    /\ pc = "reserve"
    /\ effective_length' = EffectiveLength(total_length, bridge_length, final_is_cutting)
    /\ pc' = "emit"
    /\ UNCHANGED <<config, idx, result, output, total_length, remaining_length,
                   final_is_cutting, current_distance, is_cutting, segments,
                   perforated_segments, returned, failed, nfaults>>

\* lines 194-211: one iteration of the emission loop, cutting phase
EmitCut ==
    /\ pc = "emit"
    /\ current_distance < effective_length
    /\ is_cutting
    /\ LET segment_start == current_distance
           segment_end == SegmentEnd(current_distance, cut_length, effective_length)
       IN  /\ IF ShouldEmit(segment_start, segment_end)
              THEN \E raises \in BOOLEAN :
                      /\ MayRaise(raises)
                      /\ Raised(raises)
                      /\ LET cut_segment ==
                                 extract_path_segment(poly, segment_start,
                                                      segment_end, raises)
                         IN  segments' =
                                 IF cut_segment # None /\ Len(cut_segment) >= 2
                                 THEN AppendSegment(segments, cut_segment)
                                 ELSE segments
              ELSE UNCHANGED <<segments, failed, nfaults>>
           /\ current_distance' = segment_end
    /\ is_cutting' = ~is_cutting
    /\ UNCHANGED <<config, pc, idx, result, output, total_length, remaining_length,
                   final_is_cutting, effective_length, perforated_segments,
                   returned>>

\* lines 206-211: one iteration of the emission loop, bridge phase
EmitBridge ==
    /\ pc = "emit"
    /\ current_distance < effective_length
    /\ ~is_cutting
    /\ current_distance' = BridgeEnd(current_distance, bridge_length, effective_length)
    /\ is_cutting' = ~is_cutting
    /\ UNCHANGED <<config, pc, idx, result, output, total_length, remaining_length,
                   final_is_cutting, effective_length, segments,
                   perforated_segments, returned, failed, nfaults>>

\* line 213: return segments if segments else [poly]
ReturnSegments ==
    /\ pc = "emit"
    /\ current_distance >= effective_length
    /\ perforated_segments' = IF segments # << >> THEN segments ELSE <<poly>>
    /\ pc' = "extend"
    /\ UNCHANGED <<config, idx, result, output, locals, returned, failed, nfaults>>

\* line 100: result.extend(perforated_segments), then the next polygon
Extend ==
    /\ pc = "extend"
    /\ result' = ExtendResult(result, perforated_segments)
    /\ returned' = Append(returned, perforated_segments)
    /\ idx' = idx + 1
    /\ perforated_segments' = << >>
    /\ ResetLocals
    /\ pc' = "loop"
    /\ UNCHANGED <<config, output, failed, nfaults>>

Next ==
    \/ apply_to_polypath
    \/ SkipPoly
    \/ CallPerforation
    \/ ReturnResult
    \/ MeasureFails
    \/ ShortPath
    \/ GeneralCase
    \/ SimulateStep
    \/ ReserveBridge
    \/ EmitCut
    \/ EmitBridge
    \/ ReturnSegments
    \/ Extend

Spec == Init /\ [][Next]_vars

\* Inputs for which the simulated remaining length stays within MaxGrowth of
\* the path length, so that the guard of SimulateStep never cuts a run short
\* and every behaviour is one of the code.
InitFair == Init /\ cut_length + bridge_length >= 0

\* The interpreter keeps executing the call until it returns.
FairSpec == InitFair /\ [][Next]_vars /\ WF_vars(Next)

\* ------------------------------------------------------------------ claims
\* apply_perforation has returned perforated_segments for poly, and its
\* locals still hold their final values
AtReturn == pc = "extend"
Positive == cut_length > 0 /\ bridge_length > 0
GeneralPath == PathLength(poly) > cut_length + bridge_length
SegStart(p) == p[1]
SegEnd(p) == p[Len(p)]
\* the unchanged polyline handed back because a Qt call raised
PassedThrough == failed /\ perforated_segments = <<poly>>

\* C1: for C > 0, B > 0 and a path of length L > 0, every segment returned by
\* apply_perforation covers [s, e] with 0 <= s < e < L, and in the general
\* case, when the simulated pattern finishes in the cutting phase, no cut
\* ends beyond L - B (the unchanged polyline returned after a raised Qt call
\* is not a segment).
C1_PenNeverLeftDown ==
    (AtReturn /\ Positive /\ PathLength(poly) > 0 /\ ~PassedThrough) =>
        \A i \in 1..Len(perforated_segments) :
            LET p == perforated_segments[i]
            IN  /\ 0 <= SegStart(p)
                /\ SegStart(p) < SegEnd(p)
                /\ SegEnd(p) < PathLength(poly)
                /\ (GeneralPath /\ final_is_cutting) =>
                       SegEnd(p) <= PathLength(poly) - bridge_length

\* C1 witness: the pattern would end in a cut, a bridge was reserved and the
\* last of several cuts ends exactly at L - B
C1_Witness ==
    /\ AtReturn /\ Positive /\ ~failed /\ GeneralPath /\ final_is_cutting
    /\ Len(perforated_segments) >= 2
    /\ SegEnd(perforated_segments[Len(perforated_segments)])
           = PathLength(poly) - bridge_length

\* C2: in the general case with C > 0 and B > 0 the i-th segment starts at
\* o + i*(C + B), o = 0 when starting with a cut and B otherwise, ends at
\* min(start + C, effective_length), and there is one segment for each i
\* whose start is below effective_length; for L = 100, C = 5, B = 2 this
\* gives [0,5], [7,12], ... ending before 98, or first [2,7].
C2_PatternPositions ==
    (AtReturn /\ Positive /\ GeneralPath /\ ~failed) =>
        LET o == IF start_with_cut THEN 0 ELSE bridge_length
            period == cut_length + bridge_length
            n == Cardinality({i \in 0..PathLength(poly) :
                                 o + i * period < effective_length})
        IN  /\ Len(perforated_segments) = n
            /\ \A i \in 0..(n - 1) :
                   perforated_segments[i + 1] =
                       <<o + i * period,
                         Min(o + i * period + cut_length, effective_length)>>
            /\ (poly = <<0, 100>> /\ cut_length = 5 /\ bridge_length = 2) =>
                   IF start_with_cut
                   THEN /\ perforated_segments[1] = <<0, 5>>
                        /\ perforated_segments[2] = <<7, 12>>
                        /\ effective_length = 98
                        /\ \A k \in 1..n : SegEnd(perforated_segments[k]) < 98
                   ELSE perforated_segments[1] = <<2, 7>>

\* C2 witness: the documented line of length 100 has been perforated
C2_Witness ==
    /\ AtReturn /\ ~failed /\ start_with_cut
    /\ poly = <<0, 100>> /\ cut_length = 5 /\ bridge_length = 2
    /\ Len(perforated_segments) = 14

\* C3: for B > 0 and L <= C the result is empty when starting with a bridge,
\* empty when starting with a cut and L <= B, and the single segment
\* [0, L - B] when starting with a cut and L > B.
C3_ShortPathPolicy ==
    (AtReturn /\ bridge_length > 0 /\ PathLength(poly) <= cut_length /\ ~failed) =>
        perforated_segments =
            IF ~start_with_cut THEN << >>
            ELSE IF PathLength(poly) <= bridge_length THEN << >>
            ELSE << <<0, PathLength(poly) - bridge_length>> >>

\* C3 witness: the documented path of length 3 with C = 5, B = 2 is trimmed
\* to [0, 1]
C3_Witness ==
    /\ AtReturn /\ ~failed /\ start_with_cut
    /\ poly = <<0, 3>> /\ cut_length = 5 /\ bridge_length = 2
    /\ perforated_segments = << <<0, 1>> >>

\* C4 as stated: for C >= 0, B > 0 and C < L <= C + B exactly one segment is
\* returned, from arc length 0 and of arc length C.
C4_Original ==
    (AtReturn /\ cut_length >= 0 /\ bridge_length > 0 /\ ~failed
        /\ cut_length < PathLength(poly) /\ ~GeneralPath) =>
        perforated_segments = << <<0, cut_length>> >>

\* C4 amended: the same for C > 0 (for C = 0 nothing is returned).
C4_OneCutRun ==
    (AtReturn /\ Positive /\ ~failed
        /\ cut_length < PathLength(poly) /\ ~GeneralPath) =>
        /\ Len(perforated_segments) = 1
        /\ SegStart(perforated_segments[1]) = 0
        /\ SegEnd(perforated_segments[1]) - SegStart(perforated_segments[1])
               = cut_length

\* C4 witness: a path longer than one cut run and no longer than a cut plus
\* a bridge has been cut once
C4_Witness ==
    /\ AtReturn /\ Positive /\ ~failed
    /\ cut_length < PathLength(poly) /\ ~GeneralPath
    /\ Len(poly) = 3
    /\ perforated_segments = << <<0, cut_length>> >>

\* C5 as stated: for C >= 0 and B > 0 every polyline returned by
\* apply_perforation has at least 2 points and covers at most C.
C5_Original ==
    (AtReturn /\ cut_length >= 0 /\ bridge_length > 0 /\ ~failed) =>
        \A i \in 1..Len(perforated_segments) :
            LET p == perforated_segments[i]
            IN  Len(p) >= 2 /\ SegEnd(p) - SegStart(p) <= cut_length

\* C5 amended: for C > 0 and B > 0 every polyline returned by
\* apply_perforation has at least 2 points and covers at most C, unless it is
\* the unchanged polyline returned because a Qt call raised.
C5_SegmentBound ==
    (AtReturn /\ Positive /\ ~PassedThrough) =>
        \A i \in 1..Len(perforated_segments) :
            LET p == perforated_segments[i]
            IN  Len(p) >= 2 /\ SegEnd(p) - SegStart(p) <= cut_length

\* C5 witness: a general-case result whose last cut is clamped and whose
\* first cut is a full cut run
C5_Witness ==
    /\ AtReturn /\ Positive /\ ~failed /\ GeneralPath
    /\ Len(perforated_segments) >= 2
    /\ SegEnd(perforated_segments[1]) - SegStart(perforated_segments[1])
           = cut_length
    /\ LET p == perforated_segments[Len(perforated_segments)]
       IN  SegEnd(p) - SegStart(p) < cut_length

\* the intervals of segs lie in [0, total], do not overlap and are listed by
\* strictly increasing start
Ordered(segs, total) ==
    /\ \A i \in 1..Len(segs) :
           0 <= SegStart(segs[i]) /\ SegStart(segs[i]) <= SegEnd(segs[i])
               /\ SegEnd(segs[i]) <= total
    /\ \A i \in 1..Len(segs) : \A j \in 1..Len(segs) :
           i < j => /\ SegEnd(segs[i]) <= SegStart(segs[j])
                    /\ SegStart(segs[i]) < SegStart(segs[j])

\* C6: for C > 0 and B > 0 the intervals of the segments of one polyline lie
\* in [0, total_length], do not overlap and are in strictly increasing order
\* of start, after every iteration of the emission loop and in the result.
C6_OrderedDisjoint ==
    Positive =>
        /\ pc = "emit" => Ordered(segments, PathLength(poly))
        /\ AtReturn => Ordered(perforated_segments, PathLength(poly))

\* C6 witness: the emission loop has emitted three segments
C6_Witness ==
    /\ pc = "emit" /\ Positive /\ Len(segments) >= 3 /\ ~is_cutting

\* C7: when a Qt call raises while a polyline is processed, apply_perforation
\* returns exactly that polyline, never an empty or partial result.
C7_FailSafe ==
    (AtReturn /\ failed) => perforated_segments = <<poly>>

\* C8: apply_to_polypath returns for every input and every config.
C8_Terminates == <>(pc = "done")

\* the concatenation of the lists of a sequence of lists
RECURSIVE Flatten(_)
Flatten(lists) ==
    IF lists = << >> THEN << >> ELSE Head(lists) \o Flatten(Tail(lists))

\* C9: when bridge_length <= 0 the input is returned unchanged; otherwise the
\* output is the concatenation, in input order, of what each polyline
\* contributes: itself when it has fewer than 2 points, and else the list
\* apply_perforation returned for it.
C9_BatchResult ==
    pc = "done" =>
        IF bridge_length <= 0
        THEN output = polypath
        ELSE /\ Len(returned) = Len(polypath)
             /\ \A i \in 1..Len(polypath) :
                    Len(polypath[i]) < 2 => returned[i] = <<polypath[i]>>
             /\ output = Flatten(returned)

\* C9 witness: a batch of a one-point polyline and a perforated polyline
C9_Witness ==
    /\ pc = "done" /\ bridge_length > 0 /\ Len(polypath) = 2
    /\ Len(polypath[1]) < 2 /\ Len(polypath[2]) >= 2
    /\ Len(returned[2]) >= 1 /\ returned[2] # <<polypath[2]>>
    /\ output = <<polypath[1]>> \o returned[2]

\* C10: for C > 0, B > 0 and L > C + B the emission pass emits at least one
\* segment when no Qt call raises, so the original polyline is not returned;
\* when starting with a bridge the effective length is greater than B.
C10_SomeSegment ==
    /\ (AtReturn /\ Positive /\ GeneralPath /\ ~failed) =>
           /\ Len(segments) >= 1
           /\ perforated_segments = segments
           /\ perforated_segments # <<poly>>
    /\ (pc = "emit" /\ Positive /\ ~start_with_cut) =>
           effective_length > bridge_length

\* C10 witness: starting with a bridge, with a bridge reserved at the end,
\* the emission pass has returned a cut
C10_Witness ==
    /\ AtReturn /\ Positive /\ GeneralPath /\ ~failed
    /\ ~start_with_cut /\ final_is_cutting
    /\ effective_length = PathLength(poly) - bridge_length
    /\ Len(perforated_segments) >= 1

====
